---- MODULE Spec2Model ----
(***************************************************************************)
(* The Celestron SCT focuser driver (celestron.cpp): the driver's          *)
(* properties, its move / abort / poll handlers, and the focuser motor     *)
(* that answers its commands.                                              *)
(***************************************************************************)
EXTENDS Integers, Sequences, FiniteSets, TLC

\* ------------------------------------------------------------------ bounds
\* Positions the motor can be at and targets a client asks for: 0..MaxPos.
MaxPos == 2
\* Amounts a client asks a relative move for: 0..MaxTicks.
MaxTicks == 2
\* Wide targets lie within EncSpan of a byte boundary of the goto payload.
EncSpan == 1

\* ------------------------------------------------------- program constants
SLEW_DONE == 255
DefaultAbsMin == 0
DefaultAbsMax == 60000
DefaultMaxPos == 60000
DefaultMinPos == 0

IPS_IDLE == "IPS_IDLE"
IPS_OK == "IPS_OK"
IPS_BUSY == "IPS_BUSY"
IPS_ALERT == "IPS_ALERT"

FOCUS_INWARD == "FOCUS_INWARD"
FOCUS_OUTWARD == "FOCUS_OUTWARD"

GET_VER == "GET_VER"
MC_GET_POSITION == "MC_GET_POSITION"
MC_SLEW_DONE == "MC_SLEW_DONE"
FOC_GET_HS_POSITIONS == "FOC_GET_HS_POSITIONS"
MC_GOTO_FAST == "MC_GOTO_FAST"
MC_MOVE_POS == "MC_MOVE_POS"

NoTarget == -1
NoByte == -1

VARIABLES
    connected,       \* isConnected()
    FocusAbsPosN,    \* FocusAbsPosN[0]: [value, min, max]
    FocusAbsPosNP,   \* FocusAbsPosNP.s
    FocusRelPosNP,   \* FocusRelPosNP.s
    FocusMaxPosN,    \* [value |-> FocusMaxPosN[0].value, s |-> FocusMaxPosNP.s]
    FocusMinPosN,    \* [value |-> FocusMinPosN[0].value, s |-> FocusMinPosNP.s]
    targetPosition,  \* the target of the accepted move, NoTarget when cleared
    published,       \* FocusAbsPosNP as last sent to the clients: [value, s]
    dev,             \* the focuser motor: [pos, target, moving]
    hist,            \* [lastDirection, moveDir, finalPhase]: the moves' directions
    ev               \* what the last operation was given and what it did

vars == << connected, FocusAbsPosN, FocusAbsPosNP, FocusRelPosNP, FocusMaxPosN,
           FocusMinPosN, targetPosition, published, dev, hist, ev >>

\* ---------------------------------------------------------------- helpers
Abs(x) == IF x < 0 THEN -x ELSE x
Min(a, b) == IF a < b THEN a ELSE b
Max(a, b) == IF a > b THEN a ELSE b

\* The goto payload without the mask on its high byte.
Encode3_NoMask(t) == << t \div 65536, (t \div 256) % 256, t % 256 >>

\* (unsigned char)((t >> 16) & 0xFF), ((t >> 8) & 0xFF), (t & 0xFF)
Encode3(t) == << (t \div 65536) % 256, (t \div 256) % 256, t % 256 >>
\* (reply[0] << 16) + (reply[1] << 8) + reply[2]
Decode3(b) == b[1] * 65536 + b[2] * 256 + b[3]
\* the motor's 4-byte big-endian quantities
Encode4(t) == << (t \div 16777216) % 256, (t \div 65536) % 256, (t \div 256) % 256, t % 256 >>
\* (reply[i] << 24) + (reply[i+1] << 16) + (reply[i+2] << 8) + reply[i+3]
Decode4(b, i) == b[i] * 16777216 + b[i + 1] * 65536 + b[i + 2] * 256 + b[i + 3]

\* ------------------------------------------------------- the focuser motor
\* The status bytes the motor answers MC_SLEW_DONE with while it is moving.
MovingBytes == {0, 1}

\* One step of travel towards the target; the motion ends on arrival.
DevAdvance(d, k) ==
    IF k = 0 \/ ~d.moving THEN d
    ELSE LET p == IF d.pos < d.target THEN d.pos + 1 ELSE d.pos - 1
         IN [d EXCEPT !.pos = p, !.moving = (p # d.target)]

\* The motor takes a goto: it travels to the 3-byte target.
DevGoto(d, data) ==
    [d EXCEPT !.target = Decode3(data), !.moving = (d.pos # Decode3(data))]

\* The motor takes "move at rate 0": it stops where it is.
DevStop(d) == [d EXCEPT !.target = d.pos, !.moving = FALSE]

DevPositionReply(d) == Encode3(d.pos)
DevSlewDoneReply(d, b) == << IF d.moving THEN b ELSE SLEW_DONE >>
DevLimitsReply(lo, hi) == Encode4(lo) \o Encode4(hi)
\* The replies the motor can give MC_SLEW_DONE.
DevSlewDoneReplies(d) ==
    IF d.moving THEN {DevSlewDoneReply(d, b) : b \in MovingBytes}
    ELSE {DevSlewDoneReply(d, SLEW_DONE)}
\* The travel limits (lo, hi) a calibrated motor reports.
DevLimits == { << 0, MaxPos >>, << 1, MaxPos - 1 >> }

\* ------------------------------------------------------------ the record
NoEv == [op |-> "Init", readOk |-> FALSE, queried |-> FALSE, queryOk |-> FALSE,
         byte |-> NoByte, busyBefore |-> FALSE, sendOk |-> FALSE, ret |-> "",
         req |-> NoTarget, dir |-> "", cmds |-> {}, data |-> << >>,
         timers |-> 0, pubs |-> 0]

Init ==
    /\ connected = FALSE
    /\ FocusAbsPosN = [value |-> 0, min |-> DefaultAbsMin, max |-> DefaultAbsMax]
    /\ FocusAbsPosNP = IPS_IDLE
    /\ FocusRelPosNP = IPS_IDLE
    /\ FocusMaxPosN = [value |-> DefaultMaxPos, s |-> IPS_IDLE]
    /\ FocusMinPosN = [value |-> DefaultMinPos, s |-> IPS_IDLE]
    /\ targetPosition = NoTarget
    /\ published = [value |-> 0, s |-> IPS_IDLE]
    /\ dev \in [pos : 0..MaxPos, target : 0..MaxPos, moving : {FALSE}]
    /\ dev.target = dev.pos
    /\ hist = [lastDirection |-> "Unknown", moveDir |-> "Unknown", finalPhase |-> FALSE]
    /\ ev = NoEv

\* ------------------------------------------------ the driver's functions
\* Ack(): the firmware-version probe; replyLen is the reply's size.
Ack(ok, replyLen) == ok

\* Handshake()
Handshake(ok, replyLen) == Ack(ok, replyLen)

\* readPosition() with the status it leaves written as IPS_BUSY.
readPosition_Busy(ok, reply, N, s) ==
    IF ~ok THEN [rc |-> FALSE, N |-> N, s |-> s]
    ELSE [rc |-> TRUE, N |-> [N EXCEPT !.value = Decode3(reply)], s |-> IPS_BUSY]

\* readPosition() with the cached position reset when the read fails.
readPosition_ResetOnFail(ok, reply, N, s) ==
    IF ~ok THEN [rc |-> FALSE, N |-> [N EXCEPT !.value = 0], s |-> s]
    ELSE [rc |-> TRUE, N |-> [N EXCEPT !.value = Decode3(reply)], s |-> IPS_OK]

\* readPosition(): N is FocusAbsPosN[0], s is FocusAbsPosNP.s
readPosition(ok, reply, N, s) ==
    IF ~ok THEN [rc |-> FALSE, N |-> N, s |-> s]
    ELSE [rc |-> TRUE, N |-> [N EXCEPT !.value = Decode3(reply)], s |-> IPS_OK]

\* isMoving()
isMoving(ok, reply) == IF ~ok THEN FALSE ELSE reply[1] # SLEW_DONE

\* readLimits() with the limits zeroed when the read fails.
readLimits_ZeroOnFail(ok, reply, N, s, maxN, minN) ==
    IF ~ok THEN [rc |-> FALSE, N |-> [N EXCEPT !.max = 0, !.min = 0], s |-> s,
                 maxN |-> [maxN EXCEPT !.value = 0],
                 minN |-> [minN EXCEPT !.value = 0]]
    ELSE LET lo == Decode4(reply, 1)
             hi == Decode4(reply, 5)
         IN [rc |-> TRUE,
             N |-> [N EXCEPT !.max = hi, !.min = lo],
             s |-> IPS_OK,
             maxN |-> [value |-> hi, s |-> IPS_OK],
             minN |-> [value |-> lo, s |-> IPS_OK]]

\* readLimits()
readLimits(ok, reply, N, s, maxN, minN) ==
    IF ~ok THEN [rc |-> FALSE, N |-> N, s |-> s, maxN |-> maxN, minN |-> minN]
    ELSE LET lo == Decode4(reply, 1)
             hi == Decode4(reply, 5)
         IN [rc |-> TRUE,
             N |-> [N EXCEPT !.max = hi, !.min = lo],
             s |-> IPS_OK,
             maxN |-> [value |-> hi, s |-> IPS_OK],
             minN |-> [value |-> lo, s |-> IPS_OK]]

\* getStartupParameters(): readPosition, then readLimits; FocusAbsPosNP is
\* sent to the clients after a position read (IDSetNumber) and after a
\* limits read (IUUpdateMinMax).
getStartupParameters(posOk, posReply, limOk, limReply, N, s, maxN, minN, pub) ==
    LET rp == readPosition(posOk, posReply, N, s)
        rl == readLimits(limOk, limReply, rp.N, rp.s, maxN, minN)
    IN [rc |-> rp.rc /\ rl.rc, N |-> rl.N, s |-> rl.s, maxN |-> rl.maxN,
        minN |-> rl.minN,
        published |-> IF rl.rc THEN [value |-> rl.N.value, s |-> rl.s]
                      ELSE IF rp.rc THEN [value |-> rp.N.value, s |-> rp.s]
                      ELSE pub,
        pubs |-> (IF rp.rc THEN 1 ELSE 0) + (IF rl.rc THEN 1 ELSE 0)]

\* MoveAbsFocuser() with the send's result ignored.
MoveAbsFocuser_AlwaysBusy(targetTicks, sendOk) ==
    [cmd |-> MC_GOTO_FAST, data |-> Encode3(targetTicks), ret |-> IPS_BUSY]

\* MoveAbsFocuser(uint32_t targetTicks)
MoveAbsFocuser(targetTicks, sendOk) ==
    [cmd |-> MC_GOTO_FAST,
     data |-> Encode3(targetTicks),
     ret |-> IF sendOk THEN IPS_BUSY ELSE IPS_ALERT]

\* MoveRelFocuser()'s position with the clamp to FocusAbsPosN[0].max left out.
RelNewPosition_NoUpperClamp(dir, ticks, N) ==
    LET newPosition == IF dir = FOCUS_INWARD THEN N.value - ticks
                       ELSE N.value + ticks
    IN Max(0, newPosition)

\* The position MoveRelFocuser hands to MoveAbsFocuser.
RelNewPosition(dir, ticks, N) ==
    LET newPosition == IF dir = FOCUS_INWARD THEN N.value - ticks
                       ELSE N.value + ticks
    IN Max(0, Min(N.max, newPosition))

\* MoveRelFocuser(FocusDirection dir, uint32_t ticks)
MoveRelFocuser(dir, ticks, N, sendOk) ==
    MoveAbsFocuser(RelNewPosition(dir, ticks, N), sendOk)

\* AbortFocuser() with the send's result negated.
AbortFocuser_Negated(sendOk) ==
    [cmd |-> MC_MOVE_POS, data |-> << 0 >>, ret |-> ~sendOk]

\* AbortFocuser() reporting success whatever the send returned.
AbortFocuser_AlwaysTrue(sendOk) ==
    [cmd |-> MC_MOVE_POS, data |-> << 0 >>, ret |-> TRUE]

\* AbortFocuser()
AbortFocuser(sendOk) == [cmd |-> MC_MOVE_POS, data |-> << 0 >>, ret |-> sendOk]

\* FocusAbsPosNP.s == IPS_BUSY || FocusRelPosNP.s == IPS_BUSY
Busy(absS, relS) == absS = IPS_BUSY \/ relS = IPS_BUSY
MoveBusy == Busy(FocusAbsPosNP, FocusRelPosNP)

\* The direction of a move from position p to position t.
Direction(p, t) ==
    IF t > p THEN "Outward" ELSE IF t < p THEN "Inward" ELSE "Unknown"

\* TimerHit(), lines 382-400: the statuses after the motion-complete check;
\* moving is what isMoving() returned.
PollStatus(absS, relS, moving) ==
    IF ~Busy(absS, relS) THEN [absS |-> absS, relS |-> relS, done |-> FALSE]
    ELSE IF ~moving THEN [absS |-> IPS_OK, relS |-> IPS_OK, done |-> TRUE]
    ELSE [absS |-> absS, relS |-> relS, done |-> FALSE]

\* ------------------------------------------------------------ operations
\* The client connects: Handshake(), then updateProperties() reads the
\* startup parameters and the poll timer starts.
Connect ==
    /\ ~connected
    /\ UNCHANGED << FocusRelPosNP, targetPosition, dev >>
    /\ \/ \E replyLen \in {2, 3, 4} :
            /\ Handshake(FALSE, replyLen) = FALSE
            /\ ev' = [NoEv EXCEPT !.op = "Connect", !.ret = "false", !.cmds = {GET_VER}]
            /\ UNCHANGED << connected, FocusAbsPosN, FocusAbsPosNP,
                            FocusMaxPosN, FocusMinPosN, published >>
       \/ \E replyLen \in {2, 3, 4}, posOk, limOk \in BOOLEAN, lim \in DevLimits :
            LET g == getStartupParameters(posOk, DevPositionReply(dev),
                         limOk, DevLimitsReply(lim[1], lim[2]), FocusAbsPosN,
                         FocusAbsPosNP, FocusMaxPosN, FocusMinPosN, published)
            IN /\ Handshake(TRUE, replyLen)
               /\ connected' = TRUE
               /\ FocusAbsPosN' = g.N
               /\ FocusAbsPosNP' = g.s
               /\ FocusMaxPosN' = g.maxN
               /\ FocusMinPosN' = g.minN
               /\ published' = g.published
               /\ ev' = [NoEv EXCEPT !.op = "Connect",
                             !.ret = IF g.rc THEN "true" ELSE "false",
                             !.sendOk = TRUE, !.req = replyLen,
                             !.readOk = posOk, !.queryOk = limOk,
                             !.cmds = {GET_VER, MC_GET_POSITION, FOC_GET_HS_POSITIONS},
                             !.pubs = g.pubs, !.timers = 1]

\* The client disconnects.
Disconnect ==
    /\ connected
    /\ connected' = FALSE
    /\ ev' = [NoEv EXCEPT !.op = "Disconnect"]
    /\ UNCHANGED << FocusAbsPosN, FocusAbsPosNP, FocusRelPosNP, FocusMaxPosN,
                    FocusMinPosN, targetPosition, published, dev >>

\* The motor travels one step.
DeviceStep ==
    /\ dev.moving
    /\ dev' = DevAdvance(dev, 1)
    /\ ev' = [NoEv EXCEPT !.op = "DeviceStep"]
    /\ UNCHANGED << connected, FocusAbsPosN, FocusAbsPosNP, FocusRelPosNP,
                    FocusMaxPosN, FocusMinPosN, targetPosition, published >>

\* An absolute move request: MoveAbsFocuser(target), whose result becomes
\* the move status.
MoveAbsTo(target, sendOk) ==
    LET r == MoveAbsFocuser(target, sendOk)
    IN /\ FocusAbsPosNP' = r.ret
       /\ published' = [value |-> FocusAbsPosN.value, s |-> r.ret]
       /\ targetPosition' = IF r.ret = IPS_BUSY THEN target ELSE targetPosition
       /\ dev' = IF sendOk THEN DevGoto(dev, r.data) ELSE dev
       /\ ev' = [NoEv EXCEPT !.op = "MoveAbs", !.sendOk = sendOk, !.ret = r.ret,
                             !.req = target, !.cmds = {r.cmd}, !.data = r.data]
       /\ UNCHANGED << connected, FocusAbsPosN, FocusRelPosNP, FocusMaxPosN,
                       FocusMinPosN >>

MoveAbs ==
    /\ connected
    /\ \E target \in 0..MaxPos, sendOk \in BOOLEAN : MoveAbsTo(target, sendOk)

\* A relative move request: MoveRelFocuser(dir, ticks), whose result becomes
\* the move status.
MoveRel ==
    /\ connected
    /\ \E dir \in {FOCUS_INWARD, FOCUS_OUTWARD}, ticks \in 0..MaxTicks,
          sendOk \in BOOLEAN :
        LET r == MoveRelFocuser(dir, ticks, FocusAbsPosN, sendOk)
            t == Decode3(r.data)
        IN /\ t <= MaxPos
           /\ FocusAbsPosNP' = r.ret
           /\ FocusRelPosNP' = r.ret
           /\ published' = [value |-> FocusAbsPosN.value, s |-> r.ret]
           /\ targetPosition' = IF r.ret = IPS_BUSY THEN t ELSE targetPosition
           /\ dev' = IF sendOk THEN DevGoto(dev, r.data) ELSE dev
           /\ ev' = [NoEv EXCEPT !.op = "MoveRel", !.sendOk = sendOk, !.ret = r.ret,
                                 !.req = ticks, !.dir = dir, !.cmds = {r.cmd},
                                 !.data = r.data]
    /\ UNCHANGED << connected, FocusAbsPosN, FocusMaxPosN, FocusMinPosN >>

\* An abort request: AbortFocuser(); when the stop was sent the move status
\* is reset and the target cleared.
Abort ==
    /\ connected
    /\ \E sendOk \in BOOLEAN :
        LET r == AbortFocuser(sendOk)
        IN /\ FocusAbsPosNP' = IF r.ret THEN IPS_IDLE ELSE FocusAbsPosNP
           /\ FocusRelPosNP' = IF r.ret THEN IPS_IDLE ELSE FocusRelPosNP
           /\ published' = IF r.ret /\ FocusAbsPosNP # IPS_IDLE
                            THEN [value |-> FocusAbsPosN.value, s |-> IPS_IDLE]
                            ELSE published
           /\ targetPosition' = IF r.ret THEN NoTarget ELSE targetPosition
           /\ dev' = IF sendOk THEN DevStop(dev) ELSE dev
           /\ ev' = [NoEv EXCEPT !.op = "Abort", !.sendOk = sendOk,
                                 !.ret = IF r.ret THEN "true" ELSE "false",
                                 !.cmds = {r.cmd}, !.data = r.data,
                                 !.busyBefore = MoveBusy]
    /\ UNCHANGED << connected, FocusAbsPosN, FocusMaxPosN, FocusMinPosN >>

\* The commands a connected poll tick sends on the channel.
TickCommands(queried) ==
    {MC_GET_POSITION} \cup (IF queried THEN {MC_SLEW_DONE} ELSE {})

\* The SetTimer(POLLMS) calls of a TimerHit() whose disconnected branch
\* lacks its return and falls through to the final SetTimer.
TickTimers_FallThrough(conn) == IF ~conn THEN 2 ELSE 1

\* The SetTimer(POLLMS) calls of one TimerHit(): the one before the early
\* return while disconnected, or the one that ends the function.
TickTimers(conn) == IF ~conn THEN 1 ELSE 1

\* TimerHit() while connected; reply is the motor's answer to MC_SLEW_DONE
\* should the tick ask, after the motor has travelled adv steps since the
\* position read. ev.byte is the motor's status byte at that moment, asked
\* for (ev.queried) or not.
TimerHitConnected(readOk, adv, queryOk, reply) ==
    LET lastPosition == FocusAbsPosN.value
        rp == readPosition(readOk, DevPositionReply(dev), FocusAbsPosN,
                           FocusAbsPosNP)
        pub1 == rp.rc /\ Abs(lastPosition - rp.N.value) > 1
        queried == Busy(rp.s, FocusRelPosNP)
        moving == queried /\ isMoving(queryOk, reply)
        st == PollStatus(rp.s, FocusRelPosNP, moving)
    IN /\ FocusAbsPosN' = rp.N
       /\ FocusAbsPosNP' = st.absS
       /\ FocusRelPosNP' = st.relS
       /\ published' = IF st.done THEN [value |-> rp.N.value, s |-> st.absS]
                        ELSE IF pub1 THEN [value |-> rp.N.value, s |-> rp.s]
                        ELSE published
       /\ dev' = DevAdvance(dev, adv)
       /\ ev' = [NoEv EXCEPT !.op = "TimerHit", !.readOk = readOk,
                     !.queried = queried,
                     !.queryOk = queried /\ queryOk,
                     !.byte = reply[1],
                     !.busyBefore = MoveBusy,
                     !.cmds = TickCommands(queried),
                     !.pubs = (IF pub1 THEN 1 ELSE 0) + (IF st.done THEN 1 ELSE 0),
                     !.timers = TickTimers(TRUE)]
       /\ UNCHANGED << connected, FocusMaxPosN, FocusMinPosN, targetPosition >>

\* TimerHit() without the isConnected() test: it polls the motor whether
\* the driver is connected or not.
TimerHit_NoConnCheck ==
    \E readOk, queryOk \in BOOLEAN,
       adv \in (IF dev.moving THEN 0..1 ELSE {0}) :
        \E reply \in DevSlewDoneReplies(DevAdvance(dev, adv)) :
            TimerHitConnected(readOk, adv, queryOk, reply)

\* TimerHit(): the poll tick. The motor may travel a step between the
\* position read and the motion-complete query.
TimerHit ==
    \/ /\ ~connected
       /\ ev' = [NoEv EXCEPT !.op = "TimerHit", !.timers = TickTimers(FALSE),
                             !.busyBefore = MoveBusy]
       /\ UNCHANGED << connected, FocusAbsPosN, FocusAbsPosNP, FocusRelPosNP,
                       FocusMaxPosN, FocusMinPosN, targetPosition,
                       published, dev >>
    \/ /\ connected
       /\ \E readOk, queryOk \in BOOLEAN,
             adv \in (IF dev.moving THEN 0..1 ELSE {0}) :
            \E reply \in DevSlewDoneReplies(DevAdvance(dev, adv)) :
                TimerHitConnected(readOk, adv, queryOk, reply)

Next ==
    \/ Connect /\ UNCHANGED hist
    \/ Disconnect /\ UNCHANGED hist
    \/ DeviceStep /\ UNCHANGED hist
    \/ MoveAbs /\ UNCHANGED hist
    \/ MoveRel /\ UNCHANGED hist
    \/ Abort /\ UNCHANGED hist
    \/ TimerHit /\ UNCHANGED hist

Spec == Init /\ [][Next]_vars

\* The moves' directions, recorded beside the driver: the direction of the
\* move in flight, the direction of the last move a poll tick reported
\* complete on the motor's 0xFF, and whether a poll tick has sent the move's
\* final-phase goto.
RecordDirections ==
    hist' =
      IF ev'.op \in {"MoveAbs", "MoveRel"} /\ ev'.ret = IPS_BUSY
      THEN [hist EXCEPT !.moveDir = Direction(FocusAbsPosN.value, Decode3(ev'.data)),
                        !.finalPhase = FALSE]
      ELSE IF ev'.op = "TimerHit"
      THEN [hist EXCEPT
              !.lastDirection = IF /\ ev'.queried /\ ~MoveBusy'
                                      /\ ev'.queryOk /\ ev'.byte = SLEW_DONE
                                      /\ hist.moveDir # "Unknown"
                                   THEN hist.moveDir ELSE @,
              !.finalPhase = @ \/ MC_GOTO_FAST \in ev'.cmds]
      ELSE hist

NextDirections ==
    \/ Connect /\ RecordDirections
    \/ Disconnect /\ RecordDirections
    \/ DeviceStep /\ RecordDirections
    \/ MoveAbs /\ RecordDirections
    \/ MoveRel /\ RecordDirections
    \/ Abort /\ RecordDirections
    \/ TimerHit /\ RecordDirections

SpecDirections == Init /\ [][NextDirections]_vars

\* A poll tick all of whose channel calls succeed.
GoodTick ==
    /\ TimerHit
    /\ connected /\ ev'.readOk /\ (ev'.queried => ev'.queryOk)

\* The driver once connected for good, serving one move at a time: the
\* client requests a move only while none is Busy.
NextLive ==
    \/ Connect /\ UNCHANGED hist
    \/ DeviceStep /\ UNCHANGED hist
    \/ ~MoveBusy /\ MoveAbs /\ UNCHANGED hist
    \/ ~MoveBusy /\ MoveRel /\ UNCHANGED hist
    \/ Abort /\ UNCHANGED hist
    \/ TimerHit /\ UNCHANGED hist

\* Every TimerHit re-arms the timer, so the ticks keep coming; the channel
\* keeps succeeding again and again; the motor keeps travelling until it
\* reaches its target.
SpecLive ==
    /\ Init /\ [][NextLive]_vars
    /\ WF_vars(TimerHit /\ UNCHANGED hist)
    /\ SF_vars(GoodTick /\ UNCHANGED hist)
    /\ WF_vars(DeviceStep /\ UNCHANGED hist)

\* The range of a 3-byte quantity.
TwoTo24 == 16777216

\* Targets of every byte width the uint32_t parameter of MoveAbsFocuser can
\* carry: around 0, 2^16, 2^24 and beyond.
WideTargets ==
    { t \in UNION { {b - d, b + d} : b \in {0, 65536, TwoTo24, 2 * TwoTo24 + 256},
                                     d \in 0..EncSpan } : t >= 0 }

\* MoveAbsFocuser with a target of any width, the motor at rest.
MoveAbsWide ==
    /\ connected /\ ~dev.moving
    /\ \E target \in WideTargets, sendOk \in BOOLEAN : MoveAbsTo(target, sendOk)

\* The motor reaches the target of its goto.
DeviceArrive ==
    /\ dev.moving
    /\ dev' = [dev EXCEPT !.pos = dev.target, !.moving = FALSE]
    /\ ev' = [NoEv EXCEPT !.op = "DeviceArrive"]
    /\ UNCHANGED << connected, FocusAbsPosN, FocusAbsPosNP, FocusRelPosNP,
                    FocusMaxPosN, FocusMinPosN, targetPosition, published >>

\* The goto payload and its way back: a wide target is sent, the motor
\* reaches what it decoded, and the poll tick reads the position back.
NextEncode ==
    \/ Connect /\ UNCHANGED hist
    \/ MoveAbsWide /\ UNCHANGED hist
    \/ DeviceArrive /\ UNCHANGED hist
    \/ ~dev.moving /\ TimerHit /\ UNCHANGED hist

SpecEncode == Init /\ [][NextEncode]_vars

\* ------------------------------------------------------------ properties
\* clamp(x, lo, hi)
ClampTo(x, lo, hi) == IF x < lo THEN lo ELSE IF x > hi THEN hi ELSE x

\* readLimits() has succeeded: the limits are calibrated.
Calibrated == FocusMinPosN.s = IPS_OK

\* A poll tick that asked the motor and reported the move complete.
TickCompleted == ev.op = "TimerHit" /\ ev.queried /\ ~MoveBusy

\* C1: when a poll tick observes isMoving false and reports the move
\* complete, currentPosition (FocusAbsPosN value) equals the accepted target,
\* for a target within [minLimit, maxLimit].
C1_CompleteAtTarget ==
    ( /\ TickCompleted
      /\ ev.readOk /\ ev.queryOk /\ ev.byte = SLEW_DONE
      /\ targetPosition # NoTarget
      /\ FocusAbsPosN.min <= targetPosition /\ targetPosition <= FocusAbsPosN.max )
    => FocusAbsPosN.value = targetPosition

\* C2: in a connected poll tick taken while the move status is Busy, with
\* every channel call succeeding, the status leaves Busy exactly when the
\* motion-complete byte is 0xFF, and for any other byte FocusAbsPosNP.s is
\* still Busy when the tick ends.
C2_CompleteIffSlewDone ==
    ( /\ ev.op = "TimerHit" /\ connected /\ ev.busyBefore
      /\ ev.readOk /\ (ev.queried => ev.queryOk) )
    => /\ (~MoveBusy) <=> (ev.byte = SLEW_DONE)
       /\ (ev.byte # SLEW_DONE) => FocusAbsPosNP = IPS_BUSY

\* C3: a poll tick whose isMoving() query fails leaves the move status Busy.
C3_QueryFailKeepsBusy ==
    (ev.op = "TimerHit" /\ ev.queried /\ ~ev.queryOk) => MoveBusy

C5_TickNeverSetsBusy ==
    (ev.op = "TimerHit" /\ ~ev.busyBefore) => ~MoveBusy

C5_Witness ==
    /\ ev.op = "TimerHit" /\ connected /\ ~ev.busyBefore /\ ev.readOk
    /\ dev.moving /\ ~MoveBusy

\* C6: MoveRelFocuser(dir, n) from position p sends the command and returns
\* the result of MoveAbsFocuser(clamp(p - n, 0, maxLimit)) for Inward and of
\* MoveAbsFocuser(clamp(p + n, 0, maxLimit)) for Outward.
C6_RelEqualsAbs ==
    ev.op = "MoveRel" =>
        LET p == FocusAbsPosN.value
            t == ClampTo(IF ev.dir = FOCUS_INWARD THEN p - ev.req ELSE p + ev.req,
                         0, FocusAbsPosN.max)
            a == MoveAbsFocuser(t, ev.sendOk)
        IN ev.cmds = {a.cmd} /\ ev.data = a.data /\ ev.ret = a.ret

C6_Witness ==
    /\ ev.op = "MoveRel" /\ ev.dir = FOCUS_OUTWARD /\ ev.sendOk
    /\ FocusAbsPosN.value + ev.req > FocusAbsPosN.max
    /\ Decode3(ev.data) = FocusAbsPosN.max

\* C7: once the limits are calibrated, the target MoveAbsFocuser sends in its
\* goto is the requested target clamped to [minLimit, maxLimit].
C7_DispatchClamped ==
    (ev.op = "MoveAbs" /\ ev.sendOk /\ Calibrated)
    => Decode3(ev.data) = ClampTo(ev.req, FocusAbsPosN.min, FocusAbsPosN.max)

\* C8: a move whose direction differs from the direction of the last
\* completed move is reported complete only after a poll tick has issued its
\* final-phase move (the backlash overshoot sub-state).
C8_ReversalOvershoots ==
    [][ ( /\ ev'.op = "TimerHit" /\ ev'.queried /\ ~MoveBusy'
          /\ ev'.queryOk /\ ev'.byte = SLEW_DONE
          /\ hist.lastDirection # "Unknown" /\ hist.moveDir # "Unknown"
          /\ hist.moveDir # hist.lastDirection )
        => hist'.finalPhase ]_vars

C10_AlertSticky ==
    [][ (FocusAbsPosNP = IPS_ALERT /\ ev'.op = "TimerHit")
        => FocusAbsPosNP' = IPS_ALERT ]_vars

\* C11: once a limits read has succeeded, the cached position lies within
\* the calibrated limits, minLimit <= currentPosition <= maxLimit, in every
\* reachable state (readLimits re-clamps it, later reads keep it there).
C11_PositionWithinLimits ==
    Calibrated => /\ FocusAbsPosN.min <= FocusAbsPosN.value
                  /\ FocusAbsPosN.value <= FocusAbsPosN.max

\* C12: in a connected poll tick whose position read succeeds, taken while
\* no move is Busy, the position is sent to the clients exactly when it
\* differs from the position last sent by more than 1, so that at the end of
\* the tick the position last sent is within 1 of the cached position.
C12_PublishFollowsPublished ==
    [][ ( /\ ev'.op = "TimerHit" /\ connected /\ ev'.readOk
          /\ ~MoveBusy /\ ~MoveBusy' )
        => /\ (ev'.pubs > 0) <=> (Abs(FocusAbsPosN'.value - published.value) > 1)
           /\ Abs(published'.value - FocusAbsPosN'.value) <= 1 ]_vars

\* C13: a position read that fails leaves the cached position, and the move
\* status, as they were and is reported as a failure; a position read that
\* succeeds overwrites the cached position with the value decoded from the
\* reply.
C13_ReadPositionResult ==
    [][ (ev'.op \in {"TimerHit", "Connect"} /\ MC_GET_POSITION \in ev'.cmds)
        => IF ev'.readOk
           THEN FocusAbsPosN'.value = Decode3(DevPositionReply(dev))
           ELSE /\ FocusAbsPosN'.value = FocusAbsPosN.value
                /\ ev'.op = "TimerHit" =>
                      /\ FocusAbsPosNP' = FocusAbsPosNP \/ (ev'.queried /\ ~MoveBusy')
                      /\ ev'.pubs > 0 => (ev'.queried /\ ~MoveBusy')
                /\ ev'.op = "Connect" =>
                      /\ ev'.ret = "false"
                      /\ ~ev'.queryOk => FocusAbsPosNP' = FocusAbsPosNP ]_vars

C13_Witness ==
    /\ ev.op = "TimerHit" /\ connected /\ ~ev.readOk
    /\ FocusAbsPosN.value # 0 /\ FocusAbsPosN.value # dev.pos
    /\ FocusAbsPosNP = IPS_BUSY

\* C14: a limits read that fails leaves minLimit and maxLimit (FocusAbsPosN's
\* min and max, FocusMinPosN, FocusMaxPosN) as they were and makes the
\* startup sequence report failure; a relative move requested next still
\* clamps its target against that unchanged maxLimit and returns Busy or
\* Alert on the send's result as usual.
C14_LimitsFailKeepsLimits ==
    [][ /\ (ev'.op = "Connect" /\ FOC_GET_HS_POSITIONS \in ev'.cmds /\ ~ev'.queryOk)
           => /\ FocusAbsPosN'.min = FocusAbsPosN.min
              /\ FocusAbsPosN'.max = FocusAbsPosN.max
              /\ FocusMinPosN' = FocusMinPosN
              /\ FocusMaxPosN' = FocusMaxPosN
              /\ ev'.ret = "false"
        /\ (ev.op = "Connect" /\ connected /\ ~ev.queryOk /\ ev'.op = "MoveRel")
           => /\ Decode3(ev'.data) =
                    ClampTo(IF ev'.dir = FOCUS_INWARD
                            THEN FocusAbsPosN.value - ev'.req
                            ELSE FocusAbsPosN.value + ev'.req,
                            0, FocusAbsPosN.max)
              /\ ev'.ret = (IF ev'.sendOk THEN IPS_BUSY ELSE IPS_ALERT)
              /\ FocusAbsPosN' = FocusAbsPosN ]_vars

C14_Witness ==
    /\ ev.op = "Connect" /\ connected /\ ev.readOk /\ ~ev.queryOk
    /\ ev.ret = "false" /\ Calibrated
    /\ FocusAbsPosN.max = FocusMaxPosN.value /\ FocusAbsPosN.max < DefaultAbsMax
    /\ FocusAbsPosN.value = FocusAbsPosN.max

\* C15: every TimerHit call re-arms the poll timer exactly once, on every
\* path: disconnected, position read failed, motion query failed, still
\* moving, move completed.
C15_TickReschedulesOnce ==
    ev.op = "TimerHit" => ev.timers = 1

C15_Witness ==
    /\ ev.op = "TimerHit" /\ connected /\ ~ev.readOk
    /\ ev.queried /\ ~ev.queryOk /\ ev.timers = 1

\* C16: a poll tick taken while disconnected sends no command and leaves the
\* cached position, the limits, the move status and the values last sent to
\* the clients as they were; it only re-arms the timer.
C16_DisconnectedTickIdle ==
    [][ (ev'.op = "TimerHit" /\ ~connected)
        => /\ ev'.cmds = {} /\ ev'.pubs = 0 /\ ev'.timers = 1
           /\ UNCHANGED << connected, FocusAbsPosN, FocusAbsPosNP, FocusRelPosNP,
                           FocusMaxPosN, FocusMinPosN, published, dev >> ]_vars

C16_Witness ==
    /\ ev.op = "TimerHit" /\ ~connected /\ ev.cmds = {} /\ ev.timers = 1
    /\ MoveBusy /\ dev.moving /\ FocusAbsPosN.value # dev.pos

\* C17: the handshake succeeds only when the version probe is answered with
\* a reply of 2 or 4 bytes; it fails when the channel fails and when the
\* reply has any other length.
C17_HandshakeReplyLength ==
    [][ ev'.op = "Connect"
        => (connected' <=> (ev'.sendOk /\ ev'.req \in {2, 4})) ]_vars

\* C18: an abort sends exactly one command, the blind "move at rate zero"
\* (MC_MOVE_POS with the single payload byte 0), whatever the move status
\* is, and returns true exactly when that send succeeded.
C18_AbortSendsStop ==
    ev.op = "Abort" =>
        /\ ev.cmds = {MC_MOVE_POS}
        /\ ev.data = << 0 >>
        /\ ev.ret = (IF ev.sendOk THEN "true" ELSE "false")

C18_Witness ==
    /\ ev.op = "Abort" /\ ~ev.sendOk /\ ev.ret = "false"
    /\ ev.cmds = {MC_MOVE_POS} /\ FocusAbsPosNP = IPS_ALERT

\* C19: with the driver staying connected, the timer firing, the channel
\* succeeding again and again and the motor coming to rest, a move that is
\* Busy is eventually not Busy any more, and the clients are told so: the
\* move status last sent to them does not stay Busy.
C19_BusyMoveCompletes ==
    [](MoveBusy => <>(~MoveBusy /\ published.s # IPS_BUSY))

\* C20: the goto payload MoveAbsFocuser sends is exactly 3 bytes, each in
\* 0..255, most significant first, and decodes by readPosition's rule to the
\* target t when 0 <= t < 2^24 and to t mod 2^24 when t >= 2^24; the position
\* read back once the motor has arrived is that value.
C20_GotoPayloadRoundTrip ==
    /\ ev.op = "MoveAbs" =>
          /\ Len(ev.data) = 3
          /\ \A i \in 1..3 : ev.data[i] \in 0..255
          /\ Decode3(ev.data) = ev.req % TwoTo24
          /\ ev.req < TwoTo24 => Decode3(ev.data) = ev.req
          /\ ev.data[1] = (ev.req % TwoTo24) \div 65536 /\ ev.data[3] = ev.req % 256
    /\ ( /\ ev.op = "TimerHit" /\ connected /\ ev.readOk
         /\ targetPosition # NoTarget /\ ~dev.moving )
       => FocusAbsPosN.value = targetPosition % TwoTo24

C20_Witness ==
    /\ ev.op = "TimerHit" /\ connected /\ ev.readOk /\ ~dev.moving
    /\ targetPosition > TwoTo24
    /\ FocusAbsPosN.value = targetPosition - 2 * TwoTo24
    /\ FocusAbsPosN.value > 255

====
